---- MODULE Spec2Model ----
(***************************************************************************)
(* Vision Insight Lab (app.py): a Streamlit script that is re-executed     *)
(* from top to bottom on every user interaction.  One script run resolves  *)
(* the credential, reads the widgets and, when the analyse button was      *)
(* pressed, composes the prompt, encodes the image, issues one streaming   *)
(* request and renders the fragments as they arrive.                       *)
(*                                                                         *)
(* Texts are sequences of tokens (a character, or a fixed literal of the   *)
(* source taken as one token); bytes are integers 0..255.  A Python value  *)
(* that may be None is a set: {} is None and {v} is the value v.           *)
(* The script is single-threaded: a widget interaction is taken only       *)
(* between script runs, never while a run is consuming the stream.         *)
(***************************************************************************)
EXTENDS Integers, Sequences, FiniteSets, TLC

VARIABLES
    secrets,        \* st.secrets: a function on the configured secret names
    api_input,      \* value of the credential text field
    model,          \* value of the model selectbox
    lang,           \* value of the language selectbox
    creativity,     \* value of the slider, in tenths
    show_prompts,   \* value of the toggle
    uploaded,       \* value of the file uploader: {} or {file}
    user_context,   \* value of the context text area
    mode,           \* value of the mode radio
    api_key,        \* st.session_state.api_key: {} or {text}
    last_client,    \* api key of the latest request of an earlier run: {} or {text}
    analyze,        \* value of the button in the current script run
    phase,          \* where the current script run stands
    base64_img,     \* local of the main flow (line 149)
    request,        \* arguments of chat.completions.create: {} or {record}
    client,         \* api key the client of the call was built with
    n_requests,     \* calls of chat.completions.create in the current run
    arrived,        \* stream events delivered so far (their delta.content)
    full,           \* local of analyze_image
    message_box,    \* content of the st.empty() placeholder: {} or {text}
    result,         \* value returned by analyze_image and written: {} or {text}
    success,        \* st.success shown
    warning,        \* st.warning shown: {} or {text}
    error,          \* st.error shown: {} or {text}
    exc             \* exception raised by the call or the stream: {} or {text}

widgets == <<api_input, model, lang, creativity, show_prompts, uploaded,
             user_context, mode>>
run == <<analyze, phase, base64_img, request, client, n_requests, arrived,
         full, message_box, result, success, warning, error, exc>>
vars == <<secrets, widgets, api_key, last_client, run>>

----------------------------------------------------------------------------
(* Python values *)

None == {}
Some(v) == {v}
Get(o) == CHOOSE v \in o : TRUE

\* truth value of an optional text: None and "" are false
Truthy(o) == \E v \in o : v # <<>>

Whitespace == {" ", "\t", "\n"}

RECURSIVE lstrip(_)
lstrip(s) ==
    IF s # <<>> /\ Head(s) \in Whitespace THEN lstrip(Tail(s)) ELSE s

RECURSIVE rstrip(_)
rstrip(s) ==
    IF s # <<>> /\ s[Len(s)] \in Whitespace
    THEN rstrip(SubSeq(s, 1, Len(s) - 1))
    ELSE s

\* str.strip()
strip(s) == rstrip(lstrip(s))

----------------------------------------------------------------------------
(* encode_image: base64.b64encode(file.getvalue()).decode("utf-8") *)

\* the base64 alphabet as ASCII codes: A-Z, a-z, 0-9, +, /
B64Alphabet ==
    [i \in 0..63 |->
        IF i < 26 THEN 65 + i
        ELSE IF i < 52 THEN 97 + (i - 26)
        ELSE IF i < 62 THEN 48 + (i - 52)
        ELSE IF i = 62 THEN 43 ELSE 47]

B64Pad == 61

\* one group of up to three bytes gives four output bytes
b64group_mut(g) ==
    IF Len(g) = 1 THEN
        << B64Alphabet[g[1] \div 4], B64Alphabet[(g[1] % 4) * 16],
           B64Pad, B64Pad >>
    ELSE IF Len(g) = 2 THEN
        << B64Alphabet[g[1] \div 4],
           B64Alphabet[(g[1] % 4) * 16 + (g[2] \div 16)],
           B64Alphabet[(g[2] % 16) * 4], B64Pad >>
    ELSE
        << B64Alphabet[g[1] \div 4],
           B64Alphabet[(g[1] % 4) * 16 + (g[2] \div 16)],
           B64Alphabet[(g[2] % 16) * 4],
           B64Alphabet[g[3] % 64] >>

b64group(g) ==
    IF Len(g) = 1 THEN
        << B64Alphabet[g[1] \div 4], B64Alphabet[(g[1] % 4) * 16],
           B64Pad, B64Pad >>
    ELSE IF Len(g) = 2 THEN
        << B64Alphabet[g[1] \div 4],
           B64Alphabet[(g[1] % 4) * 16 + (g[2] \div 16)],
           B64Alphabet[(g[2] % 16) * 4], B64Pad >>
    ELSE
        << B64Alphabet[g[1] \div 4],
           B64Alphabet[(g[1] % 4) * 16 + (g[2] \div 16)],
           B64Alphabet[(g[2] % 16) * 4 + (g[3] \div 64)],
           B64Alphabet[g[3] % 64] >>

RECURSIVE b64encode(_)
b64encode(bytes) ==
    IF bytes = <<>> THEN <<>>
    ELSE IF Len(bytes) <= 3 THEN b64group(bytes)
    ELSE b64group(SubSeq(bytes, 1, 3)) \o b64encode(SubSeq(bytes, 4, Len(bytes)))

\* the ASCII characters base64 text is made of, by code
Upper ==
    << "A", "B", "C", "D", "E", "F", "G", "H", "I", "J", "K", "L", "M",
       "N", "O", "P", "Q", "R", "S", "T", "U", "V", "W", "X", "Y", "Z" >>
Lower ==
    << "a", "b", "c", "d", "e", "f", "g", "h", "i", "j", "k", "l", "m",
       "n", "o", "p", "q", "r", "s", "t", "u", "v", "w", "x", "y", "z" >>
Digits == << "0", "1", "2", "3", "4", "5", "6", "7", "8", "9" >>

Chr(c) ==
    IF c \in 65..90 THEN Upper[c - 64]
    ELSE IF c \in 97..122 THEN Lower[c - 96]
    ELSE IF c \in 48..57 THEN Digits[c - 47]
    ELSE IF c = 43 THEN "+"
    ELSE IF c = 47 THEN "/"
    ELSE "="

\* bytes.decode("utf-8") on ASCII bytes: one character per byte
decode_utf8(bytes) == [i \in 1..Len(bytes) |-> Chr(bytes[i])]

encode_image(file) == decode_utf8(b64encode(file.data))

----------------------------------------------------------------------------
(* Inputs *)

SecretName == "OPENAI_API_KEY"
NoSecrets == [n \in {} |-> <<>>]
SecretStores == {NoSecrets, [n \in {SecretName} |-> <<"s", "k">>]}

ApiInputs == {<<>>, <<" ">>, <<"k">>, <<" ", "j", " ">>}
Models == {"gpt-4o-mini", "gpt-4o"}
Languages == {"Español", "Inglés"}
\* the slider, in tenths: 0.0 to 1.2, default 0.4
CreativityValues == {4, 12}
Modes == {"Descripción general", "Análisis artístico", "Análisis técnico",
          "Historia creativa"}
Contexts == {<<>>, <<" ">>, <<"x", "y">>}
Files == {[name |-> "a.png", data |-> <<137, 80, 78, 71>>]}
\* delta.content of a stream event; <<>> stands for both None and ""
Contents == {<<>>, <<"a">>, <<"b">>}
CreateErrors == {<<"AuthenticationError">>}
StreamErrors == {<<"APIConnectionError">>}

MaxFragments == 2

\* files of every content up to MaxBytes bytes
MaxBytes == 3
ByteSamples == {0, 77, 128, 255}
ByteSeqs == UNION {[1..n -> ByteSamples] : n \in 0..MaxBytes}
AnyFiles == {[name |-> "x.webp", data |-> d] : d \in ByteSeqs}

----------------------------------------------------------------------------
(* Sidebar: credential resolution, lines 84-90 *)

sidebar_api_key_stale(inp, sec) ==
    IF api_key # None THEN api_key
    ELSE IF inp # <<>> THEN Some(strip(inp))
    ELSE IF SecretName \in DOMAIN sec THEN Some(sec[SecretName])
    ELSE None

sidebar_api_key(inp, sec) ==
    IF inp # <<>> THEN Some(strip(inp))
    ELSE IF SecretName \in DOMAIN sec THEN Some(sec[SecretName])
    ELSE None

----------------------------------------------------------------------------
(* Prompt composition, lines 128-133 and 150-154 *)

prompt_map ==
    [m \in Modes |->
        CASE m = "Descripción general" ->
               "Describe con detalle lo que se observa en la imagen: objetos, colores, iluminación, contexto y emociones visuales."
          [] m = "Análisis artístico" ->
               "Analiza la composición, uso de color, balance visual, estilo artístico y posibles influencias estéticas."
          [] m = "Análisis técnico" ->
               "Evalúa calidad técnica: foco, exposición, profundidad de campo, iluminación, texturas y realismo."
          [] m = "Historia creativa" ->
               "Imagina una historia corta inspirada en la escena de la imagen. Escríbela con un tono poético o narrativo."]

lang_suffix(l) ==
    IF l = "Español" THEN "Responde en español." ELSE "Respond in English."

ContextLabel == "\n\nContexto adicional del usuario:\n"

full_prompt_mut(m, l, ctx) ==
    << prompt_map[m], "\n\n", lang_suffix(l) >> \o << ContextLabel >> \o ctx

full_prompt(m, l, ctx) ==
    << prompt_map[m], "\n\n", lang_suffix(l) >>
        \o (IF ctx # <<>> THEN << ContextLabel >> \o ctx ELSE <<>>)

----------------------------------------------------------------------------
(* analyze_image, lines 48-76 *)

get_client(key) == IF Truthy(key) THEN key ELSE None

messages(b64, prompt) ==
    << [role |-> "user",
        content |->
          << [type |-> "text", text |-> prompt],
             [type |-> "image_url",
              image_url |-> [url |-> << "data:image/png;base64," >> \o b64]] >>] >>

create_args_temperature(mdl, msgs) ==
    [model |-> mdl, messages |-> msgs, max_tokens |-> 1200, stream |-> TRUE,
     temperature |-> creativity']

create_args(mdl, msgs) ==
    [model |-> mdl, messages |-> msgs, max_tokens |-> 1200, stream |-> TRUE]

fresh_full_stale == full

\* line 62
fresh_full == <<>>

Marker == "▌"

accumulate_mut(acc, content) == content \o acc

\* line 73
accumulate(acc, content) == acc \o content

\* line 74
in_progress(acc) == acc \o << Marker >>

----------------------------------------------------------------------------
(* Main flow, lines 141-160 *)

\* the warnings and the error prefix, without their leading pictograph
WarnImage == "Por favor sube una imagen antes de analizar."
WarnKey == "Ingresa tu API key en la barra lateral."
ErrorPrefix == "Ocurrió un error: "
NoneTypeError == <<"'NoneType' object has no attribute 'chat'">>

should_analyze_always(clicked) == TRUE

\* line 141
should_analyze(clicked) == clicked

main_branch_mut(upl, key) ==
    IF ~Truthy(key) THEN "no_key"
    ELSE IF upl = None THEN "no_image"
    ELSE "call"

\* lines 142-146
main_branch(upl, key) ==
    IF upl = None THEN "no_image"
    ELSE IF ~Truthy(key) THEN "no_key"
    ELSE "call"

error_text_mut(e) == << ErrorPrefix >>

\* line 160
error_text(e) == << ErrorPrefix >> \o e

----------------------------------------------------------------------------
(* One run of the script, lines 81-160, on the widget values of the new    *)
(* state.  Every run starts from an empty page and new locals.             *)

\* the run ends without entering the main flow, or with a warning shown
NoCall(ph, warn) ==
    /\ phase' = ph
    /\ warning' = warn
    /\ base64_img' = <<>>
    /\ request' = None
    /\ client' = None
    /\ n_requests' = 0
    /\ full' = <<>>
    /\ message_box' = None
    /\ error' = None
    /\ exc' = None

\* lines 147-155 and 159-160: the call is prepared and issued; it returns a
\* stream or raises
Call ==
    /\ warning' = None
    /\ base64_img' = encode_image(Get(uploaded'))
    /\ client' = get_client(api_key')
    /\ full' = fresh_full
    /\ message_box' = None
    /\ IF client' = None
       THEN /\ request' = None
            /\ n_requests' = 0
            /\ phase' = "failed"
            /\ exc' = Some(NoneTypeError)
            /\ error' = Some(error_text(NoneTypeError))
       ELSE /\ request' =
                Some(create_args(model',
                        messages(base64_img',
                                 full_prompt(mode', lang', user_context'))))
            /\ n_requests' = 1
            /\ \/ /\ phase' = "streaming"
                  /\ exc' = None
                  /\ error' = None
               \/ \E e \in CreateErrors :
                  /\ phase' = "failed"
                  /\ exc' = Some(e)
                  /\ error' = Some(error_text(e))

RunScript(clicked) ==
    /\ last_client' = IF n_requests > 0 THEN client ELSE last_client
    /\ api_key' = sidebar_api_key(api_input', secrets)
    /\ analyze' = clicked
    /\ arrived' = <<>>
    /\ result' = None
    /\ success' = FALSE
    /\ IF ~should_analyze(clicked) THEN NoCall("idle", None)
       ELSE LET b == main_branch(uploaded', api_key') IN
            IF b = "no_image" THEN NoCall("blocked", Some(WarnImage))
            ELSE IF b = "no_key" THEN NoCall("blocked", Some(WarnKey))
            ELSE Call

\* the script is not consuming a stream
Ready == phase # "streaming"

----------------------------------------------------------------------------
(* User interactions: each changes one widget and re-runs the script *)

SetApiInput(s) ==
    /\ Ready /\ s # api_input
    /\ api_input' = s
    /\ UNCHANGED <<secrets, model, lang, creativity, show_prompts, uploaded,
                   user_context, mode>>
    /\ RunScript(FALSE)

SetModel(m) ==
    /\ Ready /\ m # model
    /\ model' = m
    /\ UNCHANGED <<secrets, api_input, lang, creativity, show_prompts,
                   uploaded, user_context, mode>>
    /\ RunScript(FALSE)

SetLang(l) ==
    /\ Ready /\ l # lang
    /\ lang' = l
    /\ UNCHANGED <<secrets, api_input, model, creativity, show_prompts,
                   uploaded, user_context, mode>>
    /\ RunScript(FALSE)

SetCreativity(c) ==
    /\ Ready /\ c # creativity
    /\ creativity' = c
    /\ UNCHANGED <<secrets, api_input, model, lang, show_prompts, uploaded,
                   user_context, mode>>
    /\ RunScript(FALSE)

ToggleShowPrompts ==
    /\ Ready
    /\ show_prompts' = ~show_prompts
    /\ UNCHANGED <<secrets, api_input, model, lang, creativity, uploaded,
                   user_context, mode>>
    /\ RunScript(FALSE)

Upload(u) ==
    /\ Ready /\ u # uploaded
    /\ uploaded' = u
    /\ UNCHANGED <<secrets, api_input, model, lang, creativity, show_prompts,
                   user_context, mode>>
    /\ RunScript(FALSE)

SetContext(t) ==
    /\ Ready /\ t # user_context
    /\ user_context' = t
    /\ UNCHANGED <<secrets, api_input, model, lang, creativity, show_prompts,
                   uploaded, mode>>
    /\ RunScript(FALSE)

SetMode(m) ==
    /\ Ready /\ m # mode
    /\ mode' = m
    /\ UNCHANGED <<secrets, api_input, model, lang, creativity, show_prompts,
                   uploaded, user_context>>
    /\ RunScript(FALSE)

\* the analyse button, line 136
ClickAnalyze ==
    /\ Ready
    /\ UNCHANGED <<secrets, widgets>>
    /\ RunScript(TRUE)

----------------------------------------------------------------------------
(* The stream, lines 70-76 and 156-160 *)

\* lines 70-74: one event of the stream
StreamEvent(content) ==
    /\ phase = "streaming"
    /\ Len(arrived) < MaxFragments
    /\ arrived' = Append(arrived, content)
    /\ IF content # <<>>
       THEN /\ full' = accumulate(full, content)
            /\ message_box' = Some(in_progress(full'))
       ELSE UNCHANGED <<full, message_box>>
    /\ UNCHANGED <<secrets, widgets, api_key, last_client, analyze, phase,
                   base64_img, request, client, n_requests, result, success,
                   warning, error, exc>>

\* lines 75-76 and 156-158: the stream ends normally
StreamEnd ==
    /\ phase = "streaming"
    /\ message_box' = Some(full)
    /\ result' = Some(full)
    /\ success' = TRUE
    /\ phase' = "complete"
    /\ UNCHANGED <<secrets, widgets, api_key, last_client, analyze,
                   base64_img, request, client, n_requests, arrived, full,
                   warning, error, exc>>

\* lines 159-160: the stream raises
StreamError(e) ==
    /\ phase = "streaming"
    /\ exc' = Some(e)
    /\ error' = Some(error_text(e))
    /\ phase' = "failed"
    /\ UNCHANGED <<secrets, widgets, api_key, last_client, analyze,
                   base64_img, request, client, n_requests, arrived, full,
                   message_box, result, success, warning>>

----------------------------------------------------------------------------
(* The page after its first run, with the widgets at their defaults *)

\* lines 87-90 on the configured secrets
Fallback ==
    IF SecretName \in DOMAIN secrets THEN Some(secrets[SecretName]) ELSE None

InitRun ==
    /\ analyze = FALSE
    /\ phase = "idle"
    /\ base64_img = <<>>
    /\ request = None
    /\ client = None
    /\ n_requests = 0
    /\ arrived = <<>>
    /\ full = <<>>
    /\ message_box = None
    /\ result = None
    /\ success = FALSE
    /\ warning = None
    /\ error = None
    /\ exc = None

Init ==
    /\ secrets \in SecretStores
    /\ api_input = <<>>
    /\ model = "gpt-4o"
    /\ lang = "Español"
    /\ creativity = 4
    /\ show_prompts = FALSE
    /\ uploaded = None
    /\ user_context = <<>>
    /\ mode = "Descripción general"
    /\ last_client = None
    /\ api_key = Fallback    \* the first run found the field empty
    /\ InitRun

Stream ==
    \/ \E c \in Contents : StreamEvent(c)
    \/ StreamEnd
    \/ \E e \in StreamErrors : StreamError(e)

Next ==
    \/ \E s \in ApiInputs : SetApiInput(s)
    \/ \E m \in Models : SetModel(m)
    \/ \E l \in Languages : SetLang(l)
    \/ \E c \in CreativityValues : SetCreativity(c)
    \/ ToggleShowPrompts
    \/ \E u \in {None} \cup {Some(f) : f \in Files} : Upload(u)
    \/ \E t \in Contexts : SetContext(t)
    \/ \E m \in Modes : SetMode(m)
    \/ ClickAnalyze
    \/ Stream

Spec == Init /\ [][Next]_vars

\* a session that submits a file of any content, with a key entered
InitEnc ==
    /\ secrets = NoSecrets
    /\ api_input = <<"k">>
    /\ model = "gpt-4o"
    /\ lang = "Español"
    /\ creativity = 4
    /\ show_prompts = FALSE
    /\ uploaded \in {Some(f) : f \in AnyFiles}
    /\ user_context = <<>>
    /\ mode = "Descripción general"
    /\ last_client = None
    /\ api_key = Some(strip(api_input))
    /\ InitRun

NextEnc ==
    \/ ClickAnalyze
    \/ Stream

SpecEnc == InitEnc /\ [][NextEnc]_vars

----------------------------------------------------------------------------
(* Properties *)

Issued == n_requests > 0

\* C1: on a submit, no image gives the image warning and no request; an
\* image without a credential gives the credential warning and no request;
\* a request is sent only with an image and a non-empty credential.
C1_SubmitPreconditions ==
    /\ analyze /\ uploaded = None
         => warning = Some(WarnImage) /\ ~Issued /\ request = None
    /\ analyze /\ uploaded # None /\ ~Truthy(api_key)
         => warning = Some(WarnKey) /\ ~Issued /\ request = None
    /\ Issued \/ request # None
         => /\ uploaded # None
            /\ \E k \in api_key : k # <<>> /\ client = Some(k)
            /\ warning = None

C1_Witness ==
    /\ analyze /\ uploaded # None /\ api_key = Some(<<>>)
    /\ warning = Some(WarnKey) /\ ~Issued

RECURSIVE Concat(_)
Concat(fs) == IF fs = <<>> THEN <<>> ELSE Head(fs) \o Concat(Tail(fs))

\* C2 as stated: after each fragment the display is the concatenation of
\* the fragments so far followed by the marker; after the end of the stream
\* the display and the returned value are the whole concatenation.
C2_Original ==
    /\ phase = "streaming" /\ arrived # <<>>
         => message_box = Some(Concat(arrived) \o << Marker >>)
    /\ phase = "complete"
         => message_box = Some(Concat(arrived)) /\ result = Some(Concat(arrived))

\* C2, amended: the display is the concatenation followed by the marker
\* after each non-empty fragment; a fragment without content leaves the
\* display as it was (blank while no content has arrived); after the end of
\* the stream the display and the returned value are the whole concatenation.
C2_Amended ==
    /\ phase = "streaming"
         => /\ full = Concat(arrived)
            /\ message_box = IF Concat(arrived) = <<>> THEN None
                             ELSE Some(Concat(arrived) \o << Marker >>)
    /\ phase = "complete"
         => message_box = Some(Concat(arrived)) /\ result = Some(Concat(arrived))

C2_Witness ==
    /\ phase = "streaming"
    /\ arrived = << <<"a">>, <<"b">> >>
    /\ message_box = Some(<<"a", "b", Marker>>)

\* C3: when the call or the stream raised, the failure message holds the
\* error text, the success message and the result are not shown, and the
\* accumulated text is displayed only with the marker.
C3_FailureShown ==
    exc # None
      => /\ phase = "failed"
         /\ \E e \in exc : error = Some(<< ErrorPrefix >> \o e)
         /\ ~success
         /\ result = None
         /\ message_box = IF full = <<>> THEN None ELSE Some(full \o << Marker >>)

C3_Witness ==
    /\ exc \in {Some(e) : e \in StreamErrors}
    /\ full # <<>>
    /\ error # None

\* the credential in effect: None and "" are both no credential
Credential(key) == IF Truthy(key) THEN key ELSE None

\* C4: the resolved credential is the trimmed user value if that is
\* non-empty, else the fallback if one is configured, else no credential.
C4_Claim ==
    Credential(api_key) =
        IF strip(api_input) # <<>> THEN Some(strip(api_input))
        ELSE Credential(Fallback)

PromptSent == Get(request).messages[1].content[1].text
UrlSent == Get(request).messages[1].content[2].image_url.url

\* C5: the prompt sent is the template of the mode, then the directive of
\* the language, then the labelled context block if and only if the context
\* is non-empty; with an empty context nothing follows the directive.
C5_PromptComposition ==
    request # None
      => /\ Len(PromptSent) >= 3
         /\ PromptSent[1] = prompt_map[mode]
         /\ PromptSent[2] = "\n\n"
         /\ PromptSent[3] = (IF lang = "Español" THEN "Responde en español."
                             ELSE "Respond in English.")
         /\ user_context = <<>> => Len(PromptSent) = 3
         /\ user_context # <<>>
              => SubSeq(PromptSent, 4, Len(PromptSent))
                   = << ContextLabel >> \o user_context

C5_Witness ==
    /\ request # None
    /\ user_context = <<"x", "y">>
    /\ lang = "Inglés"
    /\ mode = "Historia creativa"

\* C6: a script run issues at most one request, a failed run included, and
\* issues none unless the button was pressed.
C6_AtMostOneRequest ==
    /\ n_requests <= 1
    /\ Issued => analyze
    /\ request # None <=> Issued
    /\ phase \in {"streaming", "complete", "failed"} => analyze

C6_Witness ==
    /\ phase = "failed"
    /\ n_requests = 1
    /\ arrived # <<>>

Terminal == {"complete", "failed"}
Cleared ==
    /\ message_box = None /\ result = None /\ ~success /\ error = None
    /\ full = <<>> /\ arrived = <<>>

\* C7 as stated: complete is entered only from streaming by a normal end,
\* failed only by an error; from complete or failed nothing changes until a
\* new request, which starts with an empty accumulated text.
C7_Original ==
    [][ /\ phase' = "complete" /\ phase # "complete"
             => phase = "streaming" /\ exc' = None
        /\ phase' = "failed" /\ (phase # "failed" \/ analyze')
             => exc' # None
        /\ phase' = "streaming" /\ phase # "streaming"
             => analyze' /\ full' = <<>> /\ message_box' = None /\ arrived' = <<>>
        /\ phase \in Terminal
             => \/ UNCHANGED <<phase, full, arrived, message_box, result, error>>
                \/ /\ analyze'
                   /\ phase' \in {"streaming", "failed"}
                   /\ full' = <<>> /\ arrived' = <<>>
                   /\ message_box' = None /\ result' = None
      ]_vars

\* C7, amended: as stated, except that the way out of complete or failed is
\* any new user interaction, each of which re-runs the script: a submit
\* starts a new request with an empty accumulated text, and any other
\* interaction returns to idle with nothing of the previous request shown.
C7_Amended ==
    [][ /\ phase' = "complete" /\ phase # "complete"
             => phase = "streaming" /\ exc' = None
        /\ phase' = "failed" /\ (phase # "failed" \/ analyze')
             => exc' # None
        /\ phase' = "streaming" /\ phase # "streaming"
             => analyze' /\ full' = <<>> /\ message_box' = None /\ arrived' = <<>>
        /\ phase \in Terminal
             => \/ /\ analyze'
                   /\ phase' \in {"streaming", "failed"}
                   /\ full' = <<>> /\ arrived' = <<>>
                   /\ message_box' = None /\ result' = None
                \/ /\ ~analyze'
                   /\ phase' = "idle"
                   /\ Cleared'
      ]_vars

C7_Witness ==
    /\ phase = "complete"
    /\ result = Some(<<"a", "b">>)
    /\ message_box = result

\* the reference decoder: the index of a base64 character
Sextet(ch) == CHOOSE i \in 0..63 : Chr(B64Alphabet[i]) = ch

RECURSIVE b64decode(_)
b64decode(t) ==
    IF Len(t) < 4 THEN <<>>
    ELSE LET s1 == Sextet(t[1])
             s2 == Sextet(t[2])
             rest == b64decode(SubSeq(t, 5, Len(t)))
         IN  IF t[3] = "=" THEN << s1 * 4 + (s2 \div 16) >>
             ELSE IF t[4] = "="
                  THEN << s1 * 4 + (s2 \div 16),
                          (s2 % 16) * 16 + (Sextet(t[3]) \div 4) >>
             ELSE << s1 * 4 + (s2 \div 16),
                     (s2 % 16) * 16 + (Sextet(t[3]) \div 4),
                     (Sextet(t[3]) % 4) * 64 + Sextet(t[4]) >> \o rest

\* C8: decoding the text encode_image produced for the uploaded file gives
\* back exactly the bytes of the file.
C8_RoundTrip ==
    request # None
      => /\ b64decode(base64_img) = Get(uploaded).data
         /\ b64decode(Tail(UrlSent)) = Get(uploaded).data
         /\ Len(base64_img) = 4 * ((Len(Get(uploaded).data) + 2) \div 3)

C8_Witness ==
    /\ request # None
    /\ Get(uploaded).data = <<255, 128, 77>>
    /\ base64_img = <<"/", "4", "B", "N">>

\* C9: the credential of a request is the one the credential field and the
\* fallback give in the run that issues it: the entered key when the field
\* holds one, the fallback when the field is empty, and with an empty field
\* and no fallback the submit is blocked.  (A field of whitespace only
\* resolves to "" and blocks the submit.)
C9_CredentialIsCurrent ==
    /\ Issued /\ strip(api_input) # <<>> => client = Some(strip(api_input))
    /\ api_input # <<>> /\ strip(api_input) = <<>> => ~Issued
    /\ Issued /\ api_input = <<>> => client = Fallback /\ Fallback # None
    /\ Issued => client = api_key
    /\ analyze /\ uploaded # None /\ api_input = <<>> /\ Fallback = None
         => ~Issued /\ warning = Some(WarnKey)

C9_Witness ==
    /\ Issued
    /\ last_client # None
    /\ last_client # client
    /\ client = api_key

\* C10: the request carries the selected model, one message with the
\* composed prompt and the data URL of the image, max_tokens 1200 and
\* stream, and nothing else: it is the same for every creativity value.
C10_RequestIgnoresCreativity ==
    request # None
      => request = Some(
           [model |-> model,
            messages |->
              << [role |-> "user",
                  content |->
                    << [type |-> "text",
                        text |-> full_prompt(mode, lang, user_context)],
                       [type |-> "image_url",
                        image_url |->
                          [url |-> << "data:image/png;base64," >>
                                     \o encode_image(Get(uploaded))]] >>] >>,
            max_tokens |-> 1200,
            stream |-> TRUE])

C10_Witness ==
    /\ request # None
    /\ creativity = 12
    /\ model = "gpt-4o-mini"

====
